---- MODULE Spec2Model ----
(***************************************************************************)
(* Model of code/point_source/gaia_magerror.py: the Gaia EDR3 magnitude    *)
(* uncertainty curves (Edr3LogMagUncertainty) and the synthetic            *)
(* photometry sampler built on them (MagError).                            *)
(*                                                                         *)
(* Number representation.  Magnitudes and linear uncertainties are         *)
(* fixed-point integers in units of 1e-5 mag.  A log10-uncertainty L is    *)
(* kept exactly, as the reduced fraction num/den = 10^(2L), so that        *)
(* equality and order of log-uncertainties are those of real arithmetic.   *)
(* The IEEE special values numpy produces (nan, +inf, -inf) are kept as    *)
(* separate kinds.                                                         *)
(***************************************************************************)
EXTENDS Integers, Sequences, FiniteSets, TLC

VARIABLES
    nobsRef,    \* self.__nobs : band -> reference observation count
    splines,    \* self.__splines : band -> curve coefficients
    med_nobs,   \* self.med_nobs : <<g, bp, rp>> Poisson means
    rng,        \* state of the process-wide random source (np.random)
    last,       \* the last call: its arguments, what it raised, what it returned
    first       \* an earlier syn_sample_photoerr run kept for comparison

vars == <<nobsRef, splines, med_nobs, rng, last, first>>

----------------------------------------------------------------------------
(* Bounds of the model *)

MaxStars == 2
MaxObs == 3
RngMod == 8

----------------------------------------------------------------------------
(* Numbers *)

\* w whole magnitudes in the fixed-point unit (1e-5 mag)
Mag(w) == w * 100000

MagLo == 4
MagHi == 21

Fin(v) == [k |-> "fin", v |-> v]
PInf == [k |-> "pinf", v |-> 0]
NInf == [k |-> "ninf", v |-> 0]
NaN == [k |-> "nan", v |-> 0]

IsFinite(x) == x.k = "fin"

\* IEEE product and sum, as numpy computes them element-wise
FMul(a, b) ==
    IF a.k = "nan" \/ b.k = "nan" THEN NaN
    ELSE IF a.k = "fin" /\ b.k = "fin" THEN Fin(a.v * b.v)
    ELSE LET sa == IF a.k = "fin" THEN a.v ELSE IF a.k = "pinf" THEN 1 ELSE -1
             sb == IF b.k = "fin" THEN b.v ELSE IF b.k = "pinf" THEN 1 ELSE -1
         IN  IF sa = 0 \/ sb = 0 THEN NaN
             ELSE IF (sa > 0) = (sb > 0) THEN PInf ELSE NInf

FAdd(a, b) ==
    IF a.k = "nan" \/ b.k = "nan" THEN NaN
    ELSE IF a.k = "fin" /\ b.k = "fin" THEN Fin(a.v + b.v)
    ELSE IF a.k = "fin" THEN b
    ELSE IF b.k = "fin" THEN a
    ELSE IF a.k = b.k THEN a ELSE NaN

RECURSIVE GCD(_, _)
GCD(a, b) == IF b = 0 THEN a ELSE GCD(b, a % b)

\* A finite log10 value L, kept as the reduced fraction 10^(2L) = num/den
LogVal(num, den) ==
    LET g == GCD(num, den) IN [k |-> "fin", num |-> num \div g, den |-> den \div g]
LogNaN == [k |-> "nan", num |-> 0, den |-> 1]
LogPInf == [k |-> "pinf", num |-> 1, den |-> 0]

\* a/b < c/d for positive integers, by continued fractions (no products)
RECURSIVE FracLess(_, _, _, _)
FracLess(a, b, c, d) ==
    LET q1 == a \div b
        q2 == c \div d
        r1 == a % b
        r2 == c % d
    IN  IF q1 # q2 THEN q1 < q2
        ELSE IF r2 = 0 THEN FALSE
        ELSE IF r1 = 0 THEN TRUE
        ELSE FracLess(d, r2, b, r1)

\* L1 < L2 for finite log values
LogLess(L1, L2) ==
    /\ L1.k = "fin"
    /\ L2.k = "fin"
    /\ FracLess(L1.num, L1.den, L2.num, L2.den)

RECURSIVE ISqrtIn(_, _, _)
ISqrtIn(n, lo, hi) ==
    IF lo >= hi THEN lo
    ELSE LET mid == (lo + hi + 1) \div 2
         IN  IF mid * mid <= n THEN ISqrtIn(n, mid, hi) ELSE ISqrtIn(n, lo, mid - 1)

\* floor(sqrt(n)) for 0 <= n < 2^31
ISqrt(n) == ISqrtIn(n, 0, 46340)

----------------------------------------------------------------------------
(* Edr3LogMagUncertainty *)

Bands == <<"g", "bp", "rp">>
BandSet == {"g", "bp", "rp"}

\* self.__nobs as __init__ sets it
DefaultNobs == [b \in BandSet |-> IF b = "g" THEN 200 ELSE 20]

\* The reference table (LogErrVsMagSpline.csv) is an input of the program: two
\* tables stand for it.  A band's curve is kept by two coefficients; its
\* ordinate at magnitude x is the reference uncertainty base + slope*(x - 4).
TableA == [b \in BandSet |->
             IF b = "g" THEN [base |-> 30, slope |-> 50]
             ELSE IF b = "bp" THEN [base |-> 120, slope |-> 90]
             ELSE [base |-> 90, slope |-> 70]]
TableB == [b \in BandSet |->
             IF b = "g" THEN [base |-> 45, slope |-> 20]
             ELSE IF b = "bp" THEN [base |-> 200, slope |-> 60]
             ELSE [base |-> 150, slope |-> 100]]
Tables == {TableA, TableB}

\* interpolate.BSpline(knots, coeff, 3, extrapolate=False) called at x:
\* nan outside the base interval of the knots, which is the valid range
\* (4, 21) of estimate's docstring, and the curve's log10 value inside
BSplineEval(coef, x) ==
    IF x < Mag(MagLo) \/ x > Mag(MagHi) THEN LogNaN
    ELSE LET u == coef.base + (coef.slope * (x - Mag(MagLo))) \div Mag(1)
         IN  LogVal(u * u, 1)

\* L - np.log10(np.sqrt(n) / np.sqrt(ref))
RescaleMut(L, n, ref) ==
    IF L.k = "nan" \/ n < 0 THEN LogNaN
    ELSE IF n = 0 THEN LogPInf
    ELSE LogVal(L.num * ref, L.den * n * n)
RescaleInv(L, n, ref) ==
    IF L.k = "nan" \/ n < 0 THEN LogNaN
    ELSE IF n = 0 THEN LogPInf
    ELSE LogVal(L.num * n, L.den * ref)
Rescale(L, n, ref) ==
    IF L.k = "nan" \/ n < 0 THEN LogNaN
    ELSE IF n = 0 THEN LogPInf
    ELSE LogVal(L.num * ref, L.den * n)

\* band.lower()
Lower(s) ==
    CASE s = "G" -> "g"
      [] s = "BP" -> "bp"
      [] s = "Bp" -> "bp"
      [] s = "RP" -> "rp"
      [] s = "XX" -> "xx"
      [] OTHER -> s

\* np.linspace(lo, hi, m)
Linspace(lo, hi, m) ==
    [i \in 1..m |-> IF m = 1 THEN lo ELSE lo + ((i - 1) * (hi - lo)) \div (m - 1)]

\* the spline called on an array
SplineOn(coef, xx) == [i \in 1..Len(xx) |-> BSplineEval(coef, xx[i])]

\* f'logU_{n:d}'
ColName(n) == "logU_" \o ToString(n)

\* __out[key] = col on a dict kept in insertion order
DictSetMut(d, key, col) == Append(d, [name |-> key, data |-> col])
DictSet(d, key, col) ==
    IF \E i \in 1..Len(d) : d[i].name = key
    THEN [i \in 1..Len(d) |-> IF d[i].name = key THEN [name |-> key, data |-> col] ELSE d[i]]
    ELSE Append(d, [name |-> key, data |-> col])

\* One pass of the loop of __compute_nobs over num = nobs[1], nobs[2], ...:
\* acc is [out, raised, self_nobs]
ComputeStepMut(acc, coef, band, xx, num) ==
    IF acc.raised # "none" THEN acc
    ELSE IF num < 0 THEN [acc EXCEPT !.raised = "ValueError"]
    ELSE IF num = 0
         THEN [acc EXCEPT !.out = DictSet(acc.out, ColName(acc.self_nobs[band]), SplineOn(coef, xx))]
         ELSE [acc EXCEPT !.out = DictSet(acc.out, ColName(num),
                    [i \in 1..Len(xx) |-> Rescale(BSplineEval(coef, xx[i]), num, acc.self_nobs[band])]),
                          !.self_nobs = [acc.self_nobs EXCEPT ![band] = num]]
ComputeStep(acc, coef, band, xx, num) ==
    IF acc.raised # "none" THEN acc
    ELSE IF num < 0 THEN [acc EXCEPT !.raised = "ValueError"]
    ELSE IF num = 0
         THEN [acc EXCEPT !.out = DictSet(acc.out, ColName(acc.self_nobs[band]), SplineOn(coef, xx))]
         ELSE [acc EXCEPT !.out = DictSet(acc.out, ColName(num),
                    [i \in 1..Len(xx) |-> Rescale(BSplineEval(coef, xx[i]), num, acc.self_nobs[band])])]

RECURSIVE ComputeLoop(_, _, _, _, _, _)
ComputeLoop(acc, coef, band, xx, nums, i) ==
    IF i > Len(nums) THEN acc
    ELSE ComputeLoop(ComputeStep(acc, coef, band, xx, nums[i]), coef, band, xx, nums, i + 1)

\* A requested nobs is a Python int or a sequence of ints
IntArg(n) == [tag |-> "int", v |-> <<n>>]
ListArg(s) == [tag |-> "list", v |-> s]

\* __compute_nobs(band, xx, nobs): [out, raised, self_nobs]
ComputeNobs(selfNobs, selfSplines, band, xx, nobs) ==
    LET nums == nobs.v   \* if isinstance(nobs, int): nobs = [nobs]
    IN  ComputeLoop([out |-> <<>>, raised |-> "none", self_nobs |-> selfNobs],
                    selfSplines[band], band, xx, nums, 1)

NoRange == <<>>
NoTable == <<>>

\* The checks of mag_range in estimate; "none" or the exception raised
CheckMagRangeMut(mag_range) ==
    IF mag_range = NoRange THEN "none"
    ELSE IF mag_range[1] < Mag(MagLo) THEN "ValueError"
    ELSE IF mag_range[2] > Mag(MagHi) THEN "ValueError"
    ELSE "none"
CheckMagRange(mag_range) ==
    IF mag_range = NoRange THEN "none"
    ELSE IF mag_range[1] < Mag(MagLo) THEN "ValueError"
    ELSE IF mag_range[2] > Mag(MagHi) THEN "ValueError"
    ELSE IF mag_range[1] > mag_range[2] THEN "ValueError"
    ELSE "none"

\* estimate(band, nobs, mag_range, mag_samples):
\* [raised, table, self_nobs, self_splines, nobs, mag_range], the last four
\* being the object's fields and the caller's arguments as the call leaves them
Estimate(selfNobs, selfSplines, band0, nobs, mag_range0, mag_samples) ==
    LET band == Lower(band0)
        fail == [raised |-> "ValueError", table |-> NoTable, self_nobs |-> selfNobs,
                 self_splines |-> selfSplines, nobs |-> nobs, mag_range |-> mag_range0]
    IN  IF band \notin BandSet THEN fail
        ELSE IF CheckMagRange(mag_range0) # "none" THEN fail
        ELSE LET mag_range == IF mag_range0 = NoRange THEN <<Mag(MagLo), Mag(MagHi)>>
                                                       ELSE mag_range0
                 xx == Linspace(mag_range[1], mag_range[2], mag_samples)
                 c == ComputeNobs(selfNobs, selfSplines, band, xx, nobs)
             IN  IF c.raised # "none"
                 THEN [fail EXCEPT !.raised = c.raised, !.self_nobs = c.self_nobs]
                 ELSE [raised |-> "none",
                       table |-> <<[name |-> "mag_" \o band, data |-> xx]>> \o c.out,
                       self_nobs |-> c.self_nobs, self_splines |-> selfSplines,
                       nobs |-> nobs, mag_range |-> mag_range0]

----------------------------------------------------------------------------
(* MagError *)

\* sample_obs not given (None), or a table with these rows of
\* <<phot_g_n_obs, phot_bp_n_obs, phot_rp_n_obs>>
NoSample == [given |-> FALSE, rows |-> <<>>]
Obs(rows) == [given |-> TRUE, rows |-> rows]

Column(rows, b) == [i \in 1..Len(rows) |-> rows[i][b]]

\* Twice np.median(col) of a non-empty column: the middle element of the sorted
\* column, or the mean of the two middle ones
Median2Mut(col) ==
    LET n == Len(col)
    IN  IF n % 2 = 1 THEN 2 * col[(n + 1) \div 2] ELSE col[n \div 2] + col[n \div 2 + 1]
Median2(col) ==
    LET srt == SortSeq(col, LAMBDA a, b : a < b)
        n == Len(col)
    IN  IF n % 2 = 1 THEN 2 * srt[(n + 1) \div 2] ELSE srt[n \div 2] + srt[n \div 2 + 1]

\* int(x) of the float x = m2 / 2: truncation toward zero
IntOfHalves(m2) == IF m2 >= 0 THEN m2 \div 2 ELSE -((-m2) \div 2)

\* extract_med_nobs(sample_obs): [raised, out]; the median of an empty column
\* is nan, and int(nan) raises ValueError
ExtractMedNobs(rows) ==
    IF Len(rows) = 0 THEN [raised |-> "ValueError", out |-> <<>>]
    ELSE [raised |-> "none",
          out |-> [b \in 1..3 |-> IntOfHalves(Median2(Column(rows, b)))]]

\* The process-wide random source: a generator whose state a draw advances
RngNext(s) == (5 * s + 3) % RngMod

RECURSIVE RngAfter(_, _)
RngAfter(s, k) == IF k = 0 THEN s ELSE RngAfter(RngNext(s), k - 1)

\* The count a Poisson draw of mean lam yields in generator state s: every
\* natural number has positive probability when lam > 0, only 0 when lam = 0
PoissonVal(lam, s) ==
    IF lam = 0 \/ s = 0 THEN 0
    ELSE CASE s % 3 = 0 -> lam
           [] s % 3 = 1 -> lam + 1
           [] OTHER -> lam - 1

\* The deviate a standard-normal draw yields in generator state s
NormalVal(s) == (s % 5) - 2

\* np.random.poisson(lam, n) from state s
PoissonDraws(s, lam, n) == [i \in 1..n |-> PoissonVal(lam, RngAfter(s, i - 1))]

\* np.random.normal(size=n) from state s
NormalDrawsMut(s, n) ==
    [i \in 1..n |-> NormalVal(RngAfter(s, i - 1) + (IF first.op = "none" THEN 0 ELSE 1))]
NormalDraws(s, n) == [i \in 1..n |-> NormalVal(RngAfter(s, i - 1))]

\* random_n_obs(n_stars) from state s: [out, rng]
RandomNObs(med, s, n) ==
    [out |-> <<PoissonDraws(s, med[1], n),
               PoissonDraws(RngAfter(s, n), med[2], n),
               PoissonDraws(RngAfter(s, 2 * n), med[3], n)>>,
     rng |-> RngAfter(s, 3 * n)]

\* The literals of estimate_med_photoerr, per band g, bp, rp: the observation
\* counts under np.sqrt (200, 20, 20) and the floors 0.0027553202,
\* 0.0027901700, 0.0037793818 in units of 1e-5 mag
PhotoRef == <<200, 20, 20>>
PhotoFloor == <<276, 279, 378>>

\* floor(x / 0.67^2) = floor(x * 10000 / 4489), without an intermediate product
\* beyond 32 bits
OverCalibSq(x) == (x \div 4489) * 10000 + ((x % 4489) * 10000) \div 4489

\* np.sqrt((10 ** L / 0.67) ** 2 + floor ** 2) for the log value L
PhotoErr(L, floor) ==
    IF L.k = "nan" THEN NaN
    ELSE IF L.k = "pinf" THEN PInf
    ELSE Fin(ISqrt(OverCalibSq(L.num \div L.den) + floor * floor))

\* One band of estimate_med_photoerr: mags and n_obs are per star
BandErr(coef, mags, n_obs, b) ==
    [i \in 1..Len(mags) |->
        PhotoErr(Rescale(BSplineEval(coef, mags[i]), n_obs[i], PhotoRef[b]), PhotoFloor[b])]

\* estimate_med_photoerr(sample_syn) from state s: [raised, out, n_obs, rng].
\* numpy raises no ZeroDivisionError (a zero divisor gives inf or nan and a
\* warning), and the Python divisors np.sqrt(200), np.sqrt(20) and 0.67 are
\* not zero: the except branch is never taken.
EstimateMedPhotoerr(selfSplines, med, s, sample) ==
    LET d == RandomNObs(med, s, Len(sample))
    IN  [raised |-> "none",
         out |-> [b \in 1..3 |-> BandErr(selfSplines[Bands[b]], Column(sample, b), d.out[b], b)],
         n_obs |-> d.out,
         rng |-> d.rng]

\* band_med_err * normal_sample + sample_syn[band]
SynBandMut(err, normal, mags) ==
    [i \in 1..Len(mags) |-> FAdd(FMul(err[i], Fin(normal[Len(mags) + 1 - i])), Fin(mags[i]))]
SynBand(err, normal, mags) ==
    [i \in 1..Len(mags) |-> FAdd(FMul(err[i], Fin(normal[i])), Fin(mags[i]))]

\* syn_sample_photoerr(sample_syn) from state s: [raised, out, normal, err, n_obs, rng]
SynSamplePhotoerr(selfSplines, med, s, sample) ==
    LET n == Len(sample)
        normal == NormalDraws(s, n)
        e == EstimateMedPhotoerr(selfSplines, med, RngAfter(s, n), sample)
    IN  [raised |-> e.raised,
         out |-> [b \in 1..3 |-> SynBand(e.out[b], normal, Column(sample, b))],
         normal |-> normal, err |-> e.out, n_obs |-> e.n_obs, rng |-> e.rng]

----------------------------------------------------------------------------
(* Inputs *)

BandInputs == {"g", "BP", "rp", "xx"}
NobsInputs ==
    {IntArg(n) : n \in {0, -1, 5, 20, 200}}
    \cup {ListArg(s) : s \in {<<>>, <<200>>, <<0, 200>>, <<20, 0>>, <<5, 50>>,
                              <<50, 5>>, <<5, 5>>, <<5, -1>>, <<199, 200>>, <<200, 1>>}}
RangeInputs ==
    {NoRange, <<Mag(4), Mag(21)>>, <<Mag(3), Mag(10)>>, <<Mag(10), Mag(22)>>,
     <<Mag(10), Mag(5)>>, <<Mag(10), Mag(10)>>}
SampleCounts == {2, 3}

\* Rows of an observed sample: <<phot_g_n_obs, phot_bp_n_obs, phot_rp_n_obs>>
ObsRows == {<<10, 30, 20>>, <<20, 1, 21>>, <<30, 2, 0>>}
\* Stars of a synthetic sample: <<Gmag, G_BPmag, G_RPmag>>
SynStars == {<<Mag(10), Mag(11), Mag(9)>>, <<Mag(21), Mag(20), Mag(19)>>,
             <<Mag(22), Mag(12), Mag(3)>>}
MedInputs == {<<200, 20, 20>>, <<2, 1, 1>>, <<5, 0, 3>>}

SeqsUpTo(S, n) == UNION {[1..k -> S] : k \in 0..n}

----------------------------------------------------------------------------
(* State machine *)

NoRun == [op |-> "none"]

Init ==
    /\ nobsRef = DefaultNobs
    /\ splines \in Tables
    /\ med_nobs \in MedInputs
    /\ rng \in 0..(RngMod - 1)
    /\ last = [op |-> "init", raised |-> "none"]
    /\ first = NoRun

\* Edr3LogMagUncertainty(spline_csv)
NewModel(table) ==
    /\ splines' = table
    /\ nobsRef' = DefaultNobs
    /\ last' = [op |-> "init", raised |-> "none"]
    /\ UNCHANGED <<med_nobs, rng, first>>

\* self.estimate(band, nobs, mag_range, mag_samples)
EstimateCall(band, nobs, mag_range, mag_samples) ==
    \E r \in {Estimate(nobsRef, splines, band, nobs, mag_range, mag_samples)} :
        /\ nobsRef' = r.self_nobs
        /\ splines' = r.self_splines
        /\ last' = [op |-> "estimate", band |-> band, nobsIn |-> nobs,
                    rangeIn |-> mag_range, samples |-> mag_samples,
                    nobs |-> r.nobs, mag_range |-> r.mag_range,
                    raised |-> r.raised, table |-> r.table]
        /\ UNCHANGED <<med_nobs, rng, first>>

\* MagError(sample_obs=..., med_nobs=...): med is <<>> when med_nobs is not
\* given (None is falsy, as an empty list is).  A constructor that raises
\* leaves no new object: the fields stay those of the object in use.
NewMagError(med, sample_obs) ==
    \E r \in {IF med # <<>> THEN [raised |-> "none", out |-> med]
              ELSE IF sample_obs.given THEN ExtractMedNobs(sample_obs.rows)
              ELSE [raised |-> "ValueError", out |-> <<>>]} :
        /\ nobsRef' = IF r.raised = "none" THEN DefaultNobs ELSE nobsRef
        /\ med_nobs' = IF r.raised = "none" THEN r.out ELSE med_nobs
        /\ last' = [op |-> "init", raised |-> r.raised]
        /\ UNCHANGED <<splines, rng, first>>

\* MagError.extract_med_nobs(sample_obs)
ExtractMedNobsCall(rows) ==
    \E r \in {ExtractMedNobs(rows)} :
        /\ last' = [op |-> "extract", rows |-> rows, raised |-> r.raised, out |-> r.out]
        /\ UNCHANGED <<nobsRef, splines, med_nobs, rng, first>>

\* np.random.seed(s)
Seed(s) ==
    /\ rng' = s
    /\ last' = [op |-> "seed", raised |-> "none"]
    /\ UNCHANGED <<nobsRef, splines, med_nobs, first>>

\* self.random_n_obs(n_stars)
RandomNObsCall(n) ==
    \E r \in {RandomNObs(med_nobs, rng, n)} :
        /\ rng' = r.rng
        /\ last' = [op |-> "random_n_obs", n |-> n, raised |-> "none", out |-> r.out]
        /\ UNCHANGED <<nobsRef, splines, med_nobs, first>>

\* self.estimate_med_photoerr(sample_syn)
EstimateMedPhotoerrCall(sample) ==
    \E r \in {EstimateMedPhotoerr(splines, med_nobs, rng, sample)} :
        /\ rng' = r.rng
        /\ last' = [op |-> "photoerr", sample |-> sample, n_obs |-> r.n_obs,
                    raised |-> r.raised, out |-> r.out]
        /\ UNCHANGED <<nobsRef, splines, med_nobs, first>>

\* self.syn_sample_photoerr(sample_syn)
SynSamplePhotoerrCall(sample) ==
    \E r \in {SynSamplePhotoerr(splines, med_nobs, rng, sample)} :
        /\ rng' = r.rng
        /\ last' = [op |-> "syn", sample |-> sample, rng0 |-> rng, med |-> med_nobs,
                    again |-> (first.op # "none"),
                    normal |-> r.normal, err |-> r.err, n_obs |-> r.n_obs,
                    raised |-> r.raised, out |-> r.out]
        /\ UNCHANGED <<nobsRef, splines, med_nobs, first>>

\* The run just made is kept, to compare a later run with it
Keep ==
    /\ last.op = "syn"
    /\ first.op = "none"
    /\ first' = last
    /\ UNCHANGED <<nobsRef, splines, med_nobs, rng, last>>

\* The uncertainty model alone: construction and evaluation
InitModel == Init /\ rng = 0 /\ med_nobs = <<200, 20, 20>>

NextModel ==
    \/ \E t \in Tables : NewModel(t)
    \/ \E b \in BandInputs, n \in NobsInputs, r \in RangeInputs, m \in SampleCounts :
          EstimateCall(b, n, r, m)

SpecModel == InitModel /\ [][NextModel]_vars

\* Calibration of the sampler: construction and extract_med_nobs
NextCalib ==
    \/ \E med \in MedInputs : NewMagError(med, NoSample)
    \/ \E o \in {NoSample} \cup {Obs(r) : r \in SeqsUpTo(ObsRows, MaxObs)} :
          NewMagError(<<>>, o)
    \/ \E r \in SeqsUpTo(ObsRows, MaxObs) : ExtractMedNobsCall(r)

SpecCalib == InitModel /\ [][NextCalib]_vars

\* The sampler: seeding, drawing, estimating, generating
NextSampler ==
    \/ \E s \in 0..(RngMod - 1) : Seed(s)
    \/ \E n \in 0..MaxStars : RandomNObsCall(n)
    \/ \E sample \in SeqsUpTo(SynStars, MaxStars) : EstimateMedPhotoerrCall(sample)
    \/ \E sample \in SeqsUpTo(SynStars, MaxStars) : SynSamplePhotoerrCall(sample)

SpecSampler == Init /\ [][NextSampler]_vars

\* Repeated generation: a run is kept, the source is seeded again, and the
\* same sample is run again
NextRepro ==
    \/ \E s \in 0..(RngMod - 1) : Seed(s)
    \/ /\ first.op = "none"
       /\ \E sample \in SeqsUpTo(SynStars, MaxStars) : SynSamplePhotoerrCall(sample)
    \/ Keep
    \/ /\ first.op # "none"
       /\ SynSamplePhotoerrCall(first.sample)

SpecRepro == Init /\ [][NextRepro]_vars

\* The whole program.  Its operations fall into the groups above, and an
\* operation of one group reads nothing that an operation of another group
\* writes, except med_nobs, which the sampler reads as any of MedInputs.
Next == NextModel \/ NextCalib \/ NextSampler \/ Keep

Spec == Init /\ [][Next]_vars

----------------------------------------------------------------------------
(* Properties *)

Range(f) == {f[i] : i \in DOMAIN f}

\* The spellings of the three bands that lower-case to a known band
KnownSpellings == {"g", "G", "bp", "BP", "Bp", "bP", "rp", "RP", "Rp", "rP"}

\* The reference count the claims give a band: 200 for g, 20 for bp and rp
RefCountOf(band) == IF band \in {"g", "G"} THEN 200 ELSE 20

\* The data of the column of a table with this name
ColData(table, name) == (CHOOSE c \in Range(table) : c.name = name).data

EstimateOk == last.op = "estimate" /\ last.raised = "none"

\* C1: whenever estimate_med_photoerr draws an observation count of 0 for some
\* star in some band, the call fails with an error and returns no uncertainty
\* sequences.
C1_ZeroCountRaises ==
    (/\ last.op = "photoerr"
     /\ \E b \in 1..3 : \E i \in 1..Len(last.sample) : last.n_obs[b][i] = 0)
    => (last.raised # "none" /\ last.out = <<>>)

\* C2: estimate raises ValueError and returns no table whenever the band is
\* not a known band, a requested count is negative, or mag_range starts below
\* 4, ends above 21 or is inverted.
C2_InvalidArgumentRaises ==
    (/\ last.op = "estimate"
     /\ \/ last.band \notin KnownSpellings
        \/ \E i \in 1..Len(last.nobsIn.v) : last.nobsIn.v[i] < 0
        \/ /\ last.rangeIn # NoRange
           /\ \/ last.rangeIn[1] < Mag(4)
              \/ last.rangeIn[2] > Mag(21)
              \/ last.rangeIn[1] > last.rangeIn[2])
    => (last.raised = "ValueError" /\ last.table = NoTable)

C2_Witness ==
    /\ last.op = "estimate"
    /\ last.band = "g"
    /\ last.nobsIn = IntArg(0)
    /\ last.rangeIn = <<Mag(10), Mag(5)>>
    /\ last.raised = "ValueError"

\* C3: a successful estimate with the sentinel count 0 returns the table that
\* estimate returns for the explicit count 200 (band g) or 20 (bands bp, rp):
\* the same magnitudes, the same column label, the same log-uncertainties.
C3_SentinelIsReferenceCount ==
    (EstimateOk /\ last.nobsIn = IntArg(0))
    => LET other == Estimate(nobsRef, splines, last.band, IntArg(RefCountOf(last.band)),
                             last.rangeIn, last.samples)
       IN  other.raised = "none" /\ other.table = last.table

C3_Witness ==
    /\ EstimateOk
    /\ last.nobsIn = IntArg(0)
    /\ last.band = "BP"
    /\ last.rangeIn = NoRange
    /\ Len(last.table) = 2
    /\ \A i \in 1..last.samples : last.table[2].data[i].k = "fin"

\* C4: syn_sample_photoerr draws one deviate per star and returns, for every
\* band b and star i, err[b][i] * deviate[i] + mag[b][i], the same deviate in
\* the three bands, in the order of the input stars.
C4_SharedDeviate ==
    last.op = "syn"
    => /\ Len(last.normal) = Len(last.sample)
       /\ \A b \in 1..3 :
            /\ Len(last.out[b]) = Len(last.sample)
            /\ \A i \in 1..Len(last.sample) :
                 last.out[b][i] =
                    FAdd(FMul(last.err[b][i], Fin(last.normal[i])), Fin(last.sample[i][b]))

C4_Witness ==
    /\ last.op = "syn"
    /\ Len(last.sample) = 2
    /\ last.sample[1] # last.sample[2]
    /\ last.normal[1] # last.normal[2]
    /\ last.normal[1] # 0
    /\ last.normal[2] # 0
    /\ \A b \in 1..3 : \A i \in 1..2 : IsFinite(last.out[b][i]) /\ last.err[b][i].v > 0

C6_FiniteForPositiveCount ==
    last.op = "photoerr"
    => \A b \in 1..3 : \A i \in 1..Len(last.sample) :
          last.n_obs[b][i] >= 1 => IsFinite(last.out[b][i])

\* C7: in a table estimate returns for two different positive counts, the
\* column of the larger count is strictly below the column of the smaller
\* count at every magnitude.
C7_StrictlyDecreasing ==
    (/\ EstimateOk
     /\ last.nobsIn.tag = "list"
     /\ Len(last.nobsIn.v) = 2
     /\ last.nobsIn.v[1] > 0
     /\ last.nobsIn.v[2] > 0
     /\ last.nobsIn.v[1] # last.nobsIn.v[2])
    => LET n1 == IF last.nobsIn.v[1] < last.nobsIn.v[2] THEN last.nobsIn.v[1] ELSE last.nobsIn.v[2]
           n2 == IF last.nobsIn.v[1] < last.nobsIn.v[2] THEN last.nobsIn.v[2] ELSE last.nobsIn.v[1]
       IN  \A i \in 1..last.samples :
              LogLess(ColData(last.table, ColName(n2))[i], ColData(last.table, ColName(n1))[i])

C7_Witness ==
    /\ EstimateOk
    /\ last.band = "g"
    /\ last.nobsIn = ListArg(<<5, 50>>)
    /\ last.samples = 3
    /\ Len(last.table) = 3

\* The k-th smallest element of a column
IsKth(col, v, k) ==
    /\ v \in Range(col)
    /\ Cardinality({i \in 1..Len(col) : col[i] < v}) < k
    /\ Cardinality({i \in 1..Len(col) : col[i] <= v}) >= k

\* C8: extract_med_nobs returns, band by band in the order g, bp, rp, the
\* median of the band's column of counts cast to an integer.
C8_MedianAsInteger ==
    (last.op = "extract" /\ Len(last.rows) > 0)
    => /\ last.raised = "none"
       /\ Len(last.out) = 3
       /\ \A b \in 1..3 :
            LET col == Column(last.rows, b)
                n == Len(col)
            IN  \E lo \in Range(col), hi \in Range(col) :
                  /\ IsKth(col, lo, (n + 1) \div 2)
                  /\ IsKth(col, hi, n \div 2 + 1)
                  /\ last.out[b] = (lo + hi) \div 2

C8_Witness ==
    /\ last.op = "extract"
    /\ Column(last.rows, 1) = <<10, 20, 30>>
    /\ last.out[1] = 20

\* C9: a call of estimate, whether it returns or raises, leaves the curves,
\* the reference counts 200/20/20 and the caller's nobs and mag_range as they
\* were.
C9_EstimateHasNoSideEffect ==
    [][last'.op = "estimate"
       => /\ nobsRef' = nobsRef
          /\ nobsRef' = [b \in BandSet |-> IF b = "g" THEN 200 ELSE 20]
          /\ splines' = splines
          /\ last'.nobs = last'.nobsIn
          /\ last'.mag_range = last'.rangeIn]_vars

C9_Witness ==
    /\ EstimateOk
    /\ last.band = "rp"
    /\ last.nobsIn = ListArg(<<50, 5>>)
    /\ last.rangeIn = <<Mag(4), Mag(21)>>
    /\ nobsRef["rp"] = 20

\* C10: the table of a successful estimate is the magnitude column followed
\* by one column per distinct label, where the label of a count is the count
\* and the label of the sentinel 0 is the band's reference count.
C10_OneColumnPerLabel ==
    EstimateOk
    => LET labels == {ColName(IF n = 0 THEN RefCountOf(last.band) ELSE n) :
                          n \in Range(last.nobsIn.v)}
           t == last.table
       IN  /\ Len(t) = 1 + Cardinality(labels)
           /\ {t[i].name : i \in 2..Len(t)} = labels
           /\ \A i \in 2..Len(t) : t[i].name # t[1].name
           /\ Len(t[1].data) = last.samples

C10_Witness ==
    /\ EstimateOk
    /\ last.band = "g"
    /\ last.nobsIn = ListArg(<<0, 200>>)
    /\ Len(last.table) = 2
    /\ last.table[2].name = "logU_200"

====
